---- MODULE Spec2Model ----
(***************************************************************************)
(* A model of fuzzhound's request/detection core:                          *)
(*   - RequestSender (src/modules/request_sender.py): the asyncio          *)
(*     transport, one shared aiohttp session, send() coroutines that       *)
(*     interleave at their await points;                                   *)
(*   - FuzzDetector (src/modules/fuzz_detector.py): the baseline registry  *)
(*     and the auth-bypass scorer.                                         *)
(* Optional Python values (None or a value) are sequences: <<>> is None    *)
(* and <<v>> is the value v.                                               *)
(***************************************************************************)
EXTENDS Integers, Sequences, FiniteSets, TLC

\* ---------------------------------------------------------------- bounds
\* largest configured request.retry explored
MaxRetry == 1
\* largest number of ClientSession objects one sender creates
MaxSessions == 2

\* the send() coroutines the orchestrator may launch on one sender
Calls == {1, 2}
\* HTTP statuses a server answers with (one < 400, one >= 400)
Statuses == {200, 404}
\* len(resp_content) of a body that was read completely
BodyLens == {0, 7}
\* str(e) of a transport exception; str(asyncio.TimeoutError()) is ""
ErrMsgs == {"", "refused"}
SessionClosedMsg == "Session is closed"
\* configured request.delay values (seconds)
Delays == {0, 1}

None == <<>>
Some(v) == <<v>>

VARIABLES
    \* how many of the Calls the orchestrator launches (its concurrency)
    tasks,
    \* RequestSender fields (request_sender.py:24-60)
    retry, delay, debug_enabled, save_requests, save_responses,
    session,        \* self.session: 0 is None, n > 0 the n-th ClientSession created
    nsessions,      \* how many ClientSession objects were created so far
    closed,         \* the sessions on which close() has run
    \* per send() coroutine
    pc,             \* where the coroutine is suspended
    loc,            \* its local variables (request_sender.py:126-132, 134)
    result,         \* what send returned: None until it returns
    raised,         \* TRUE when send ended by raising
    hist,           \* history of the call: observations, not program state
    \* FuzzDetector fields (fuzz_detector.py:17-41)
    cfg,                 \* self.detection_config with its defaults applied
    baseline_responses,  \* self.baseline_responses: a dict, key -> baseline
    \* observations of the detector's calls
    lastSet,        \* per key, the result of the latest set_baseline (or None)
    lastOp,         \* the latest detector call: "none", "set" or "analyze"
    lastKey,        \* the key that call was about (None before any call)
    replaced,       \* the baseline the latest set_baseline overwrote, or None
    lastArg,        \* the result that call was given (None before any call)
    lastRet,        \* what analyze_fuzz_result returned (None is Python's None)
    \* one call of a function of the scorer or of the SQL detector
    call,           \* the function called, the object's fields and the arguments
    out             \* what the call returned: None until it has returned

senderVars == <<tasks, retry, delay, debug_enabled, save_requests, save_responses,
                session, nsessions, closed, pc, loc, result, raised, hist>>

\* the sender's configuration, fixed at construction
config == <<tasks, retry, delay, debug_enabled, save_requests, save_responses>>

detectorVars == <<cfg, baseline_responses, lastSet, lastOp, lastKey, replaced,
                  lastArg, lastRet>>

callVars == <<call, out>>

vars == <<senderVars, detectorVars, callVars>>

\* ------------------------------------------------------------ send locals
\* request_sender.py:126-132: the locals send initialises before the loop
InitLocals ==
    [attempt |-> 0, status_code |-> 0, error |-> None,
     response |-> FALSE, resp_len |-> 0]

\* what the call has done so far (observations only, no program state)
InitHist ==
    [attempts |-> 0, excs |-> 0, sleeps |-> 0, delays |-> 0,
     first |-> "none", last |-> "none", afterResp |-> 0, redelay |-> 0,
     wfail |-> FALSE]

\* the locals of a coroutine live in its own frame: storing them for call c
\* touches no other call
StoreLocalsShared(f, c, l) == [x \in DOMAIN f |-> l]
StoreLocals(f, c, l) == [f EXCEPT ![c] = l]

\* request_sender.py:100: if self.delay > 0
ShouldDelay(d) == d > 0

\* request_sender.py:151: if attempt < self.retry
RetryAfterFailure(att, r) == att < r

\* request_sender.py:159-172: the fields of the result dict that depend on
\* the attempts
BuildResult(l) ==
    [status_code |-> l.status_code,
     response_length |-> l.resp_len,
     error |-> l.error,
     success |-> l.response /\ l.status_code < 400,
     has_raw_response |-> l.response]

\* which debug file fails to be written: none, the request or the response
WriteFailures == {"none", "request", "response"}

\* request_sender.py:186-212: _save_debug_info; every failure inside the try
\* is logged by the except branch and does not leave the method
SaveDebugInfoNoExcept(sr, ss, w) ==
    LET failed == (sr /\ w = "request") \/ (ss /\ w = "response")
    IN  [failed |-> failed, raised |-> failed]
SaveDebugInfo(sr, ss, w) ==
    LET failed == (sr /\ w = "request") \/ (ss /\ w = "response")
    IN  [failed |-> failed, raised |-> FALSE]

\* request_sender.py:155-184: build the result, save the debug files, return
Return(c, l, h, w) ==
    LET r == BuildResult(l)
        d == IF debug_enabled
             THEN SaveDebugInfo(save_requests, save_responses, w)
             ELSE [failed |-> FALSE, raised |-> FALSE]
    IN  /\ pc' = [pc EXCEPT ![c] = "done"]
        /\ loc' = StoreLocals(loc, c, l)
        /\ hist' = [hist EXCEPT ![c] = [h EXCEPT !.wfail = d.failed]]
        /\ result' = [result EXCEPT ![c] = IF d.raised THEN None ELSE Some(r)]
        /\ raised' = [raised EXCEPT ![c] = d.raised]

\* the except branch with the backoff sleep after every failed attempt, the
\* last one too
FailAlwaysSleeps(c, l, h, msg, w) ==
    LET l2 == [l EXCEPT !.error = Some(msg)]
        h2 == [h EXCEPT !.excs = @ + 1, !.last = "exc", !.sleeps = @ + 1,
                        !.first = IF @ = "none" THEN "exc" ELSE @]
    IN  IF RetryAfterFailure(l.attempt, retry)
        THEN /\ pc' = [pc EXCEPT ![c] = "backoff"]
             /\ loc' = StoreLocals(loc, c, l2)
             /\ hist' = [hist EXCEPT ![c] = h2]
             /\ UNCHANGED <<result, raised>>
        ELSE Return(c, l2, h2, w)

\* request_sender.py:149-153: the except branch of one attempt
Fail(c, l, h, msg, w) ==
    LET l2 == [l EXCEPT !.error = Some(msg)]
        h2 == [h EXCEPT !.excs = @ + 1, !.last = "exc",
                        !.first = IF @ = "none" THEN "exc" ELSE @]
    IN  IF RetryAfterFailure(l.attempt, retry)
        THEN /\ pc' = [pc EXCEPT ![c] = "backoff"]
             /\ loc' = StoreLocals(loc, c, l2)
             /\ hist' = [hist EXCEPT ![c] = [h2 EXCEPT !.sleeps = @ + 1]]
             /\ UNCHANGED <<result, raised>>
        ELSE Return(c, l2, h2, w)

\* request_sender.py:134-136: one pass of the loop issues
\* self.session.request on session s; a closed session raises at once
Issue(c, l, h, s, w) ==
    LET h2 == [h EXCEPT !.attempts = @ + 1,
                        !.afterResp = IF h.last = "resp" THEN @ + 1 ELSE @]
    IN  IF s \in closed
        THEN Fail(c, l, h2, SessionClosedMsg, w)
        ELSE /\ pc' = [pc EXCEPT ![c] = "connect"]
             /\ loc' = StoreLocals(loc, c, l)
             /\ hist' = [hist EXCEPT ![c] = h2]
             /\ UNCHANGED <<result, raised>>

\* ------------------------------------------------------------ the session
\* request_sender.py:62-67: __aenter__ creates a ClientSession and stores it
AEnter ==
    /\ nsessions < MaxSessions
    /\ session' = nsessions + 1
    /\ nsessions' = nsessions + 1
    /\ UNCHANGED <<config, detectorVars, callVars, closed, pc, loc, result, raised, hist>>

\* request_sender.py:69-72: __aexit__ closes the session if there is one
AExit ==
    /\ session # 0
    /\ closed' = closed \cup {session}
    /\ UNCHANGED <<config, detectorVars, callVars, session, nsessions, pc, loc, result, raised, hist>>

\* request_sender.py:74-77: close closes the session if there is one
Close ==
    /\ session # 0
    /\ closed' = closed \cup {session}
    /\ UNCHANGED <<config, detectorVars, callVars, session, nsessions, pc, loc, result, raised, hist>>

\* ------------------------------------------------------------------ send
\* request_sender.py:79-101 (and 126-136 when there is no delay): the call
\* runs to its first await
SendStart(c) ==
    /\ pc[c] = "idle"
    /\ c <= tasks
    /\ LET s == IF session = 0 THEN nsessions + 1 ELSE session
       IN  /\ session' = s
           /\ nsessions' = IF session = 0 THEN nsessions + 1 ELSE nsessions
           /\ IF ShouldDelay(delay)
              THEN /\ pc' = [pc EXCEPT ![c] = "sleep_delay"]
                   /\ hist' = [hist EXCEPT ![c].delays = @ + 1]
                   /\ UNCHANGED <<loc, result, raised>>
              ELSE \E w \in WriteFailures :
                       Issue(c, InitLocals, hist[c], s, w)
    /\ UNCHANGED <<config, detectorVars, callVars, closed>>

\* request_sender.py:101 -> 126-136: the pre-send sleep is over
DelayDone(c) ==
    /\ pc[c] = "sleep_delay"
    /\ \E w \in WriteFailures : Issue(c, InitLocals, hist[c], session, w)
    /\ UNCHANGED <<config, detectorVars, callVars, session, nsessions, closed>>

\* request_sender.py:136 raises: no response arrived (connect, TLS, timeout)
ConnectFail(c) ==
    /\ pc[c] = "connect"
    /\ \E msg \in ErrMsgs, w \in WriteFailures :
           Fail(c, loc[c], hist[c], msg, w)
    /\ UNCHANGED <<config, detectorVars, callVars, session, nsessions, closed>>

\* request_sender.py:136-138: the status line and headers arrived
ConnectOk(c) ==
    /\ pc[c] = "connect"
    /\ \E st \in Statuses :
           loc' = StoreLocals(loc, c, [loc[c] EXCEPT !.status_code = st])
    /\ pc' = [pc EXCEPT ![c] = "read"]
    /\ UNCHANGED <<config, detectorVars, callVars, session, nsessions, closed, result, raised, hist>>

\* request_sender.py:140 raises: the body could not be read
ReadFail(c) ==
    /\ pc[c] = "read"
    /\ \E msg \in ErrMsgs, w \in WriteFailures :
           Fail(c, loc[c], hist[c], msg, w)
    /\ UNCHANGED <<config, detectorVars, callVars, session, nsessions, closed>>

\* ReadOk with HTTP error statuses retried like transport failures
ReadOkRetryHttpError(c) ==
    /\ pc[c] = "read"
    /\ \E n \in BodyLens, w \in WriteFailures :
           LET l == [loc[c] EXCEPT !.resp_len = n, !.response = TRUE]
               h == [hist[c] EXCEPT !.last = "resp",
                                    !.first = IF @ = "none" THEN "resp" ELSE @]
           IN  IF l.status_code >= 400 /\ RetryAfterFailure(l.attempt, retry)
               THEN /\ pc' = [pc EXCEPT ![c] = "backoff"]
                    /\ loc' = StoreLocals(loc, c, l)
                    /\ hist' = [hist EXCEPT ![c] = [h EXCEPT !.sleeps = @ + 1]]
                    /\ UNCHANGED <<result, raised>>
               ELSE Return(c, l, h, w)
    /\ UNCHANGED <<config, detectorVars, callVars, session, nsessions, closed>>

\* ReadOk without the break: the loop goes on to its next pass
ReadOkNoBreak(c) ==
    /\ pc[c] = "read"
    /\ \E n \in BodyLens, w \in WriteFailures :
           LET l == [loc[c] EXCEPT !.resp_len = n, !.response = TRUE]
               h == [hist[c] EXCEPT !.last = "resp",
                                    !.first = IF @ = "none" THEN "resp" ELSE @]
           IN  IF l.attempt < retry
               THEN Issue(c, [l EXCEPT !.attempt = @ + 1], h, session, w)
               ELSE Return(c, l, h, w)
    /\ UNCHANGED <<config, detectorVars, callVars, session, nsessions, closed>>

\* request_sender.py:140-148: the body was read; response = resp; break
ReadOk(c) ==
    /\ pc[c] = "read"
    /\ \E n \in BodyLens, w \in WriteFailures :
           Return(c,
                  [loc[c] EXCEPT !.resp_len = n, !.response = TRUE],
                  [hist[c] EXCEPT !.last = "resp",
                                  !.first = IF @ = "none" THEN "resp" ELSE @],
                  w)
    /\ UNCHANGED <<config, detectorVars, callVars, session, nsessions, closed>>

\* BackoffDone with the pre-send delay inside the loop: it is slept again
\* before the retry
BackoffDoneRedelay(c) ==
    /\ pc[c] = "backoff"
    /\ IF ShouldDelay(delay)
       THEN /\ pc' = [pc EXCEPT ![c] = "sleep_delay"]
            /\ hist' = [hist EXCEPT ![c].delays = @ + 1,
                                     ![c].redelay = @ + 1]
            /\ UNCHANGED <<loc, result, raised>>
       ELSE \E w \in WriteFailures :
                Issue(c, [loc[c] EXCEPT !.attempt = @ + 1], hist[c], session, w)
    /\ UNCHANGED <<config, detectorVars, callVars, session, nsessions, closed>>

\* request_sender.py:152-153 -> 134-136: the backoff sleep is over, the loop
\* goes to its next attempt
BackoffDone(c) ==
    /\ pc[c] = "backoff"
    /\ \E w \in WriteFailures :
           Issue(c, [loc[c] EXCEPT !.attempt = @ + 1], hist[c], session, w)
    /\ UNCHANGED <<config, detectorVars, callVars, session, nsessions, closed>>

\* request_sender.py:24-60: the sender after construction, before any call
InitSenderFields ==
    /\ session = 0
    /\ nsessions = 0
    /\ closed = {}
    /\ pc = [c \in Calls |-> "idle"]
    /\ loc = [c \in Calls |-> InitLocals]
    /\ result = [c \in Calls |-> None]
    /\ raised = [c \in Calls |-> FALSE]
    /\ hist = [c \in Calls |-> InitHist]

\* one send at a time, every configuration of retry, delay and debug capture
InitSender ==
    /\ tasks = 1
    /\ retry \in 0..MaxRetry
    /\ delay \in Delays
    /\ debug_enabled \in BOOLEAN
    /\ save_requests \in BOOLEAN
    /\ save_responses \in BOOLEAN
    /\ InitSenderFields

\* concurrent sends on one sender, debug capture left at its default (off,
\* request_sender.py:33-35)
InitConcurrent ==
    /\ tasks = Cardinality(Calls)
    /\ retry \in 0..MaxRetry
    /\ delay \in Delays
    /\ debug_enabled = FALSE
    /\ save_requests = FALSE
    /\ save_responses = FALSE
    /\ InitSenderFields

NextSender ==
    \/ AEnter
    \/ AExit
    \/ Close
    \/ \E c \in Calls : SendStart(c)
    \/ \E c \in Calls : DelayDone(c)
    \/ \E c \in Calls : ConnectFail(c)
    \/ \E c \in Calls : ConnectOk(c)
    \/ \E c \in Calls : ReadFail(c)
    \/ \E c \in Calls : ReadOk(c)
    \/ \E c \in Calls : BackoffDone(c)

\* ========================================================== FuzzDetector
\* Text is a sequence of characters; a key is the text method + ":" + path.

\* str.lower() on the characters the model uses
LowerChar(ch) ==
    IF ch = "O" THEN "o" ELSE IF ch = "K" THEN "k" ELSE
    IF ch = "N" THEN "n" ELSE IF ch = "S" THEN "s" ELSE
    IF ch = "Q" THEN "q" ELSE IF ch = "L" THEN "l" ELSE
    IF ch = "R" THEN "r" ELSE IF ch = "A" THEN "a" ELSE
    IF ch = "E" THEN "e" ELSE IF ch = "T" THEN "t" ELSE ch
Lower(t) == [i \in 1..Len(t) |-> LowerChar(t[i])]

\* Python's `kw in text` on strings
Contains(kw, t) ==
    \E i \in 0..(Len(t) - Len(kw)) : SubSeq(t, i + 1, i + Len(kw)) = kw

\* fuzz_detector.py:230-244: _extract_text; a dict body is serialised by
\* json.dumps, which wraps its content in braces
ExtractText(body) ==
    IF body.kind = "str" THEN body.text
    ELSE <<"{">> \o body.text \o <<"}">>

\* fuzz_detector.py:69-82: get_api_key; request.api gives method and path,
\* without it the method is the result's own and the path is empty
GetApiKey(r) ==
    IF r.api = None
    THEN <<r.method, ":">>
    ELSE <<r.api[1].method, ":">> \o r.api[1].path

\* fuzz_detector.py:50-55: the reduced snapshot set_baseline stores
Reduced(r) ==
    [status_code |-> r.status_code,
     response_length |-> r.response_length,
     response_time |-> r.response_time,
     response_body |-> r.response_body]

\* fuzz_detector.py:50: self.baseline_responses[api_key] = {...}
DictSetKeepFirst(d, k, v) ==
    [x \in DOMAIN d \cup {k} |-> IF x \in DOMAIN d THEN d[x] ELSE v]
DictSet(d, k, v) ==
    [x \in DOMAIN d \cup {k} |-> IF x = k THEN v ELSE d[x]]

\* fuzz_detector.py:58-67: get_baseline is dict.get: the baseline or None
GetBaseline(k) ==
    IF k \in DOMAIN baseline_responses
    THEN Some(baseline_responses[k])
    ELSE None

Abs(x) == IF x < 0 THEN 0 - x ELSE x

\* the status-code rule with three independent ifs instead of if/elif/elif
StatusRuleIndependent(c, st, bst) ==
    LET b1 == st \in c.success_status_codes /\ bst \notin c.success_status_codes
        b2 == st \in c.auth_status_codes /\ bst \notin c.auth_status_codes
        b3 == st # bst
    IN  <<(IF b1 THEN 50 ELSE 0) + (IF b2 THEN 40 ELSE 0)
              + (IF b3 THEN 20 ELSE 0),
          (IF b1 THEN <<[rule |-> "status_success", from |-> bst, to |-> st]>>
           ELSE <<>>) \o
          (IF b2 THEN <<[rule |-> "status_auth", from |-> bst, to |-> st]>>
           ELSE <<>>) \o
          (IF b3 THEN <<[rule |-> "status_change", from |-> bst, to |-> st]>>
           ELSE <<>>)>>

\* the status-code rule with the auth branch tested before the success branch
StatusRuleAuthFirst(c, st, bst) ==
    IF st \in c.auth_status_codes /\ bst \notin c.auth_status_codes
    THEN <<40, <<[rule |-> "status_auth", from |-> bst, to |-> st]>> >>
    ELSE IF st \in c.success_status_codes /\ bst \notin c.success_status_codes
    THEN <<50, <<[rule |-> "status_success", from |-> bst, to |-> st]>> >>
    ELSE IF st # bst
    THEN <<20, <<[rule |-> "status_change", from |-> bst, to |-> st]>> >>
    ELSE <<0, <<>> >>

\* fuzz_detector.py:110-130: the status-code rule, <<points, reasons>>
StatusRule(c, st, bst) ==
    IF st \in c.success_status_codes /\ bst \notin c.success_status_codes
    THEN <<50, <<[rule |-> "status_success", from |-> bst, to |-> st]>> >>
    ELSE IF st \in c.auth_status_codes /\ bst \notin c.auth_status_codes
    THEN <<40, <<[rule |-> "status_auth", from |-> bst, to |-> st]>> >>
    ELSE IF st # bst
    THEN <<20, <<[rule |-> "status_change", from |-> bst, to |-> st]>> >>
    ELSE <<0, <<>> >>

\* the whole percentages p <= 100 for which the double p / 100 * 100 is
\* above p (7 / 100 * 100 is 7.000000000000001); for no other ratio of two
\* lengths does the double compare with a whole threshold otherwise than the
\* exact quotient does
FloatRoundsAbove == {7, 14, 28, 55, 56}

\* fuzz_detector.py:138-140: abs(len - base) / base * 100 > threshold in
\* double arithmetic, d = abs(len - base), thr a whole number
PercentAbove(d, blen, thr) ==
    \/ d * 100 > thr * blen
    \/ d * 100 = thr * blen /\ thr \in FloatRoundsAbove

\* the response-length rule without the threshold test
LengthRuleNoThreshold(c, st, bst, len, blen) ==
    LET both == st \in c.auth_status_codes /\ bst \in c.auth_status_codes
    IN  IF blen > 0 /\ len # blen
        THEN IF len > blen
             THEN <<IF len > 1000 THEN (IF both THEN 15 ELSE 30)
                    ELSE IF len > 500 THEN (IF both THEN 12 ELSE 25)
                    ELSE (IF both THEN 10 ELSE 20),
                    <<[rule |-> "length_up", from |-> blen, to |-> len]>> >>
             ELSE <<IF both THEN 3 ELSE 5,
                    <<[rule |-> "length_down", from |-> blen, to |-> len]>> >>
        ELSE <<0, <<>> >>

\* the response-length rule with >= 1000 and >= 500 for the size classes
LengthRuleAtLeast(c, st, bst, len, blen) ==
    LET both == st \in c.auth_status_codes /\ bst \in c.auth_status_codes
    IN  IF blen > 0
           /\ PercentAbove(Abs(len - blen), blen, c.length_diff_threshold)
        THEN IF len > blen
             THEN <<IF len >= 1000 THEN (IF both THEN 15 ELSE 30)
                    ELSE IF len >= 500 THEN (IF both THEN 12 ELSE 25)
                    ELSE (IF both THEN 10 ELSE 20),
                    <<[rule |-> "length_up", from |-> blen, to |-> len]>> >>
             ELSE <<IF both THEN 3 ELSE 5,
                    <<[rule |-> "length_down", from |-> blen, to |-> len]>> >>
        ELSE <<0, <<>> >>
LengthRule(c, st, bst, len, blen) ==
    LET both == st \in c.auth_status_codes /\ bst \in c.auth_status_codes
    IN  IF blen > 0
           /\ PercentAbove(Abs(len - blen), blen, c.length_diff_threshold)
        THEN IF len > blen
             THEN <<IF len > 1000 THEN (IF both THEN 15 ELSE 30)
                    ELSE IF len > 500 THEN (IF both THEN 12 ELSE 25)
                    ELSE (IF both THEN 10 ELSE 20),
                    <<[rule |-> "length_up", from |-> blen, to |-> len]>> >>
             ELSE <<IF both THEN 3 ELSE 5,
                    <<[rule |-> "length_down", from |-> blen, to |-> len]>> >>
        ELSE <<0, <<>> >>

\* the response-time rule scoring without recording a reason
TimeRuleNoReason(c, t, bt) ==
    IF bt > 0 /\ t > c.time_diff_threshold * bt
    THEN <<10, <<>> >>
    ELSE <<0, <<>> >>

\* fuzz_detector.py:161-170: the response-time rule
TimeRule(c, t, bt) ==
    IF bt > 0 /\ t > c.time_diff_threshold * bt
    THEN <<10, <<[rule |-> "time", from |-> bt, to |-> t]>> >>
    ELSE <<0, <<>> >>

\* the index of the first keyword of kws found in text, 0 if there is none
FirstFound(kws, text) ==
    IF \E i \in 1..Len(kws) : Contains(kws[i], text)
    THEN CHOOSE i \in 1..Len(kws) :
             /\ Contains(kws[i], text)
             /\ \A j \in 1..(i - 1) : ~Contains(kws[j], text)
    ELSE 0

\* the number of keywords of kws found in text
CountFound(kws, text) ==
    Cardinality({i \in 1..Len(kws) : Contains(kws[i], text)})

\* the keyword rule without the two breaks: every matching keyword scores
KeywordRuleNoBreak(c, body) ==
    LET text == Lower(ExtractText(body))
        s == FirstFound(c.success_keywords, text)
        f == FirstFound(c.failure_keywords, text)
    IN  <<20 * CountFound(c.success_keywords, text)
              - 10 * CountFound(c.failure_keywords, text),
          (IF s > 0
           THEN <<[rule |-> "keyword_success", kw |-> c.success_keywords[s]]>>
           ELSE <<>>) \o
          (IF f > 0
           THEN <<[rule |-> "keyword_failure", kw |-> c.failure_keywords[f]]>>
           ELSE <<>>)>>

\* fuzz_detector.py:172-191: the keyword rule
KeywordRule(c, body) ==
    LET text == Lower(ExtractText(body))
        s == FirstFound(c.success_keywords, text)
        f == FirstFound(c.failure_keywords, text)
    IN  <<(IF s > 0 THEN 20 ELSE 0) - (IF f > 0 THEN 10 ELSE 0),
          (IF s > 0
           THEN <<[rule |-> "keyword_success", kw |-> c.success_keywords[s]]>>
           ELSE <<>>) \o
          (IF f > 0
           THEN <<[rule |-> "keyword_failure", kw |-> c.failure_keywords[f]]>>
           ELSE <<>>)>>

\* the classification with > for >=
LevelStrict(c, score) ==
    IF score > c.score_threshold_likely THEN "likely"
    ELSE IF score > c.score_threshold_possible THEN "possible"
    ELSE "unlikely"

\* fuzz_detector.py:193-205: the classification
Level(c, score) ==
    IF score >= c.score_threshold_likely THEN "likely"
    ELSE IF score >= c.score_threshold_possible THEN "possible"
    ELSE "unlikely"

\* fuzz_detector.py:106-228: the Analysis of result r against baseline b
Analyze(c, b, r) ==
    LET s1 == StatusRule(c, r.status_code, b.status_code)
        s2 == LengthRule(c, r.status_code, b.status_code,
                         r.response_length, b.response_length)
        s3 == TimeRule(c, r.response_time, b.response_time)
        s4 == KeywordRule(c, r.response_body)
        score == s1[1] + s2[1] + s3[1] + s4[1]
    IN  [score |-> score,
         level |-> Level(c, score),
         reasons |-> s1[2] \o s2[2] \o s3[2] \o s4[2],
         status_code |-> r.status_code,
         baseline_status |-> b.status_code,
         response_length |-> r.response_length,
         baseline_length |-> b.response_length]

\* fuzz_detector.py:84-104: analyze_fuzz_result returns None when detection
\* is disabled or the key has no baseline
AnalyzeFuzzResultNeedsChange(c, d, r) ==
    IF ~c.enabled THEN None
    ELSE IF GetApiKey(r) \notin DOMAIN d THEN None
    ELSE IF d[GetApiKey(r)].status_code = r.status_code THEN None
    ELSE Some(Analyze(c, d[GetApiKey(r)], r))
AnalyzeFuzzResult(c, d, r) ==
    IF ~c.enabled THEN None
    ELSE IF GetApiKey(r) \notin DOMAIN d THEN None
    ELSE Some(Analyze(c, d[GetApiKey(r)], r))

\* fuzz_detector.py:20-38: the configuration defaults; the keyword lists are
\* empty by default and lower-cased when loaded
LoadKeywords(kws) == [i \in 1..Len(kws) |-> Lower(kws[i])]
DetectionConfig(en) ==
    [enabled |-> en,
     success_status_codes |-> {200, 201, 202},
     auth_status_codes |-> {401, 403},
     length_diff_threshold |-> 20,
     time_diff_threshold |-> 2,
     success_keywords |-> LoadKeywords(<< <<"O", "k">> >>),
     failure_keywords |-> LoadKeywords(<< <<"n", "o">> >>),
     score_threshold_possible |-> 50,
     score_threshold_likely |-> 70]

\* the exchange results handed to the detector
Apis == {None, Some([method |-> "POST", path |-> <<"/a">>])}
Bodies == {[kind |-> "str", text |-> <<"O", "K">>],
           [kind |-> "dict", text |-> <<"n", "o">>]}
DetResults ==
    [method : {"GET"}, api : Apis, status_code : {200, 404},
     response_length : {0, 600}, response_time : {100},
     response_body : Bodies]
Keys == {GetApiKey(r) : r \in DetResults}

EmptyDict == [k \in {} |-> None]

\* fuzz_detector.py:43-56: set_baseline
SetBaseline(k, r) ==
    /\ baseline_responses' = DictSet(baseline_responses, k, Reduced(r))
    /\ lastSet' = [lastSet EXCEPT ![k] = Some(r)]
    /\ lastOp' = "set"
    /\ lastKey' = Some(k)
    /\ replaced' = GetBaseline(k)
    /\ lastArg' = Some(r)
    /\ lastRet' = None
    /\ UNCHANGED <<cfg, senderVars, callVars>>

\* analyze_fuzz_result taking the baseline it used out of the registry
AnalyzeFuzzConsumes(r) ==
    /\ lastRet' = AnalyzeFuzzResult(cfg, baseline_responses, r)
    /\ baseline_responses' =
           [k \in (DOMAIN baseline_responses) \ {GetApiKey(r)} |->
                baseline_responses[k]]
    /\ lastOp' = "analyze"
    /\ lastKey' = Some(GetApiKey(r))
    /\ lastArg' = Some(r)
    /\ UNCHANGED <<cfg, lastSet, replaced, senderVars, callVars>>

\* fuzz_detector.py:84-228: analyze_fuzz_result
AnalyzeFuzz(r) ==
    /\ lastRet' = AnalyzeFuzzResult(cfg, baseline_responses, r)
    /\ lastOp' = "analyze"
    /\ lastKey' = Some(GetApiKey(r))
    /\ lastArg' = Some(r)
    /\ UNCHANGED <<cfg, baseline_responses, lastSet, replaced, senderVars,
                   callVars>>

\* fuzz_detector.py:17-41: the detector after construction
InitDetector ==
    /\ cfg \in {DetectionConfig(en) : en \in BOOLEAN}
    /\ baseline_responses = EmptyDict
    /\ lastSet = [k \in Keys |-> None]
    /\ lastOp = "none"
    /\ lastKey = None
    /\ replaced = None
    /\ lastArg = None
    /\ lastRet = None

NextDetector ==
    \/ \E k \in Keys, r \in DetResults : SetBaseline(k, r)
    \/ \E r \in DetResults : AnalyzeFuzz(r)

\* a sender on which nothing is sent (request_sender.py:26-35 defaults)
IdleSender ==
    /\ tasks = 0
    /\ retry = 1
    /\ delay = 0
    /\ debug_enabled = FALSE
    /\ save_requests = FALSE
    /\ save_responses = FALSE
    /\ InitSenderFields

\* a detector that is never called
IdleDetector ==
    /\ cfg = DetectionConfig(TRUE)
    /\ baseline_responses = EmptyDict
    /\ lastSet = [k \in Keys |-> None]
    /\ lastOp = "none"
    /\ lastKey = None
    /\ replaced = None
    /\ lastArg = None
    /\ lastRet = None

\* no function call under way
IdleCall ==
    /\ call = None
    /\ out = None

\* ------------------------------------------------------ one scorer call
\* configurations of the scorer: the default status sets or a success set
\* that overlaps the auth set, two length thresholds, two likely thresholds,
\* keyword lists of which several keywords can match one body
ScoreConfigs ==
    {[DetectionConfig(TRUE) EXCEPT
         !.success_status_codes = succ,
         !.length_diff_threshold = thr,
         !.score_threshold_likely = likely,
         !.success_keywords = LoadKeywords(<< <<"O", "k">>, <<"K">> >>),
         !.failure_keywords = LoadKeywords(<< <<"N", "o">>, <<"n">> >>)] :
     succ \in {{200, 201, 202}, {200, 401}},
     thr \in {20, 7},
     likely \in {70, 71}}

ScoreStatuses == {200, 401, 403, 404}
\* <<baseline length, candidate length>>
ScoreLengths ==
    {<<0, 50>>, <<100, 50>>, <<100, 93>>, <<100, 100>>, <<100, 107>>,
     <<100, 108>>, <<100, 120>>, <<100, 121>>, <<100, 500>>, <<100, 501>>,
     <<100, 1000>>, <<100, 1001>>, <<1500, 1000>>, <<1500, 1600>>,
     <<1500, 1900>>}
\* <<baseline time, candidate time>> in milliseconds
ScoreTimes == {<<0, 200>>, <<100, 200>>, <<100, 201>>}
ScoreBodies ==
    {[kind |-> "str", text |-> <<"O", "K">>],
     [kind |-> "str", text |-> <<"n", "o">>],
     [kind |-> "str", text |-> <<"O", "K", " ", "N", "o">>],
     [kind |-> "str", text |-> <<"x">>],
     [kind |-> "dict", text |-> <<"k">>]}

ExchangeResult(st, len, t, body) ==
    [method |-> "GET", api |-> None, status_code |-> st,
     response_length |-> len, response_time |-> t, response_body |-> body]

\* a baseline exchange, the scorer's configuration and a candidate exchange
\* of the same endpoint
ScoreCalls ==
    {[fn |-> "analyze", cfg |-> c,
      baseline |-> ExchangeResult(bst, l[1], t[1],
                                  [kind |-> "str", text |-> <<"x">>]),
      result |-> ExchangeResult(st, l[2], t[2], body)] :
     c \in ScoreConfigs, bst \in ScoreStatuses, st \in ScoreStatuses,
     l \in ScoreLengths, t \in ScoreTimes, body \in ScoreBodies}

\* fuzz_detector.py:43-56, 84-228: set_baseline(key, baseline) on a new
\* detector, then analyze_fuzz_result(result); out keeps the Analysis and
\* what each rule contributed to it
AnalyzeCall ==
    /\ call # None
    /\ call[1].fn = "analyze"
    /\ out = None
    /\ LET c == call[1].cfg
           b == Reduced(call[1].baseline)
           r == call[1].result
       IN  out' = Some(
               [analysis |->
                    AnalyzeFuzzResult(c, DictSet(EmptyDict, GetApiKey(r), b), r),
                status |-> StatusRule(c, r.status_code, b.status_code),
                length |-> LengthRule(c, r.status_code, b.status_code,
                                      r.response_length, b.response_length),
                time |-> TimeRule(c, r.response_time, b.response_time),
                keyword |-> KeywordRule(c, r.response_body)])
    /\ UNCHANGED <<call, senderVars, detectorVars>>

InitScore ==
    /\ call \in {Some(x) : x \in ScoreCalls}
    /\ out = None

\* ------------------------------------------------------ the SQL detector
\* the texts used as patterns, file lines and bodies, one character each
S_SQL == <<"S", "Q", "L">>
S_sql == <<"s", "q", "l">>
S_ORA == <<"O", "R", "A", "-", "\\", "d", "+">>
S_call == <<"f", "(">>
S_syntax == <<"S", "Q", "L", " ", "s", "y", "n", "t", "a", "x">>
S_Error == <<"S", "Q", "L", " ", "E", "r", "r", "o", "r">>
S_STATE == <<"S", "Q", "L", "S", "T", "A", "T", "E">>
Digits == {"0", "1", "7"}
Whitespace == {" ", "\n", "\t", "\r"}

\* dict.get(key, default) on an optional entry
Get(o, default) == IF o = None THEN default ELSE o[1]

\* x in list
InSeq(x, s) == \E i \in 1..Len(s) : s[i] = x

\* str.strip()
RECURSIVE LStrip(_)
LStrip(t) ==
    IF t # <<>> /\ Head(t) \in Whitespace THEN LStrip(Tail(t)) ELSE t
RECURSIVE RStrip(_)
RStrip(t) ==
    IF t # <<>> /\ t[Len(t)] \in Whitespace
    THEN RStrip(SubSeq(t, 1, Len(t) - 1)) ELSE t
Strip(t) == RStrip(LStrip(t))

\* sql_detector.py:73-96: the built-in signatures; of the sixteen, the four
\* that can occur in the bodies drawn here
GetBuiltinErrorPatterns == <<S_syntax, S_Error, S_ORA, S_STATE>>

\* sql_detector.py:59-68: the loop over the lines of the signature file
RECURSIVE ReadPatterns(_, _)
ReadPatterns(lines, patterns) ==
    IF lines = <<>> THEN patterns
    ELSE LET line == Strip(Head(lines))
         IN  ReadPatterns(Tail(lines),
                          IF line # <<>> /\ Head(line) # "#"
                          THEN Append(patterns, line) ELSE patterns)

\* sql_detector.py:46-71: _load_error_patterns; the file is absent, cannot
\* be read, or has lines
LoadErrorPatterns(error_file) ==
    IF error_file.state = "absent" THEN GetBuiltinErrorPatterns
    ELSE IF error_file.state = "unreadable" THEN GetBuiltinErrorPatterns
    ELSE ReadPatterns(error_file.lines, <<>>)

\* re.compile on the patterns used here: letters, space and "-" stand for
\* themselves, \d is a digit, a postfix + repeats the item before it; a "("
\* that is never closed, a + with nothing before it and any other use of
\* the backslash raise re.error (None)
RECURSIVE ParseFrom(_, _, _)
ParseFrom(p, i, acc) ==
    IF i > Len(p) THEN Some(acc)
    ELSE IF p[i] = "\\"
    THEN IF i < Len(p) /\ p[i + 1] = "d"
         THEN ParseFrom(p, i + 2,
                        Append(acc, [class |-> "digit", ch |-> "0",
                                     plus |-> FALSE]))
         ELSE None
    ELSE IF p[i] = "(" THEN None
    ELSE IF p[i] = "+"
    THEN IF acc = <<>> THEN None
         ELSE ParseFrom(p, i + 1, [acc EXCEPT ![Len(acc)].plus = TRUE])
    ELSE ParseFrom(p, i + 1,
                   Append(acc, [class |-> "lit", ch |-> p[i],
                                plus |-> FALSE]))

\* re.compile(re.escape(pattern)): every character stands for itself
EscapedLiteral(p) ==
    [i \in 1..Len(p) |-> [class |-> "lit", ch |-> p[i], plus |-> FALSE]]

\* sql_detector.py:34-42: compile the pattern, or its escaped form when it
\* is not a regular expression
CompilePattern(p) ==
    IF ParseFrom(p, 1, <<>>) # None THEN ParseFrom(p, 1, <<>>)[1]
    ELSE EscapedLiteral(p)

\* one item of a compiled pattern against one character, under re.IGNORECASE
TokenMatches(t, c) ==
    IF t.class = "digit" THEN c \in Digits
    ELSE LowerChar(c) = LowerChar(t.ch)

\* the items from k on match the text from place i on
RECURSIVE MatchAt(_, _, _, _)
MatchAt(toks, k, s, i) ==
    IF k > Len(toks) THEN TRUE
    ELSE IF i > Len(s) THEN FALSE
    ELSE IF ~TokenMatches(toks[k], s[i]) THEN FALSE
    ELSE \/ MatchAt(toks, k + 1, s, i + 1)
         \/ toks[k].plus /\ MatchAt(toks, k, s, i + 1)

\* compiled.search(body)
Search(toks, s) == \E i \in 1..(Len(s) + 1) : MatchAt(toks, 1, s, i)

\* sql_detector.py:18-44: __init__
NewSQLDetector(sql_config) ==
    LET patterns == LoadErrorPatterns(sql_config.error_file)
    IN  [sql_config |-> sql_config,
         error_patterns |-> patterns,
         compiled_patterns |->
             [i \in 1..Len(patterns) |-> CompilePattern(patterns[i])]]

\* the scan without the seen_patterns test
RECURSIVE ScanPatternsNoSeen(_, _, _, _)
ScanPatternsNoSeen(d, body, i, matched) ==
    IF i > Len(d.compiled_patterns) THEN matched
    ELSE ScanPatternsNoSeen(d, body, i + 1,
             IF Search(d.compiled_patterns[i], body)
             THEN Append(matched, d.error_patterns[i]) ELSE matched)

\* sql_detector.py:113-121: the scan; seen_patterns holds what matched holds
RECURSIVE ScanPatterns(_, _, _, _)
ScanPatterns(d, body, i, matched) ==
    IF i > Len(d.compiled_patterns) THEN matched
    ELSE ScanPatterns(d, body, i + 1,
             IF /\ Search(d.compiled_patterns[i], body)
                /\ ~InSeq(d.error_patterns[i], matched)
             THEN Append(matched, d.error_patterns[i]) ELSE matched)

\* sql_detector.py:98-123: detect_sql_error
DetectSqlError(d, body) ==
    IF ~Get(d.sql_config.detect_errors, TRUE) THEN <<FALSE, <<>> >>
    ELSE LET matched_errors == ScanPatterns(d, body, 1, <<>>)
         IN  <<Len(matched_errors) > 0, matched_errors>>

\* analyze_response_diff with >= for > in the diff_threshold test
AnalyzeResponseDiffAtLeast(d, baseline_response, fuzz_response) ==
    IF ~Get(d.sql_config.detect_diff, TRUE)
    THEN [has_diff |-> FALSE, status_code_diff |-> None, length_diff |-> None,
          content_diff |-> None, significant_diff |-> None]
    ELSE LET baseline_status == Get(baseline_response.status_code, 0)
             fuzz_status == Get(fuzz_response.status_code, 0)
             baseline_body == Get(baseline_response.body, <<>>)
             fuzz_body == Get(fuzz_response.body, <<>>)
             length_diff == Abs(Len(baseline_body) - Len(fuzz_body))
             diff_threshold == Get(d.sql_config.diff_threshold, 100)
         IN  [has_diff |-> \/ baseline_status # fuzz_status
                           \/ length_diff >= diff_threshold
                           \/ baseline_body # fuzz_body,
              status_code_diff |-> Some(baseline_status # fuzz_status),
              length_diff |-> Some(length_diff),
              content_diff |-> Some(baseline_body # fuzz_body),
              significant_diff |-> Some(length_diff >= diff_threshold)]

\* analyze_response_diff where unequal bodies do not set has_diff
AnalyzeResponseDiffLengthOnly(d, baseline_response, fuzz_response) ==
    IF ~Get(d.sql_config.detect_diff, TRUE)
    THEN [has_diff |-> FALSE, status_code_diff |-> None, length_diff |-> None,
          content_diff |-> None, significant_diff |-> None]
    ELSE LET baseline_status == Get(baseline_response.status_code, 0)
             fuzz_status == Get(fuzz_response.status_code, 0)
             baseline_body == Get(baseline_response.body, <<>>)
             fuzz_body == Get(fuzz_response.body, <<>>)
             length_diff == Abs(Len(baseline_body) - Len(fuzz_body))
             diff_threshold == Get(d.sql_config.diff_threshold, 100)
         IN  [has_diff |-> \/ baseline_status # fuzz_status
                           \/ length_diff > diff_threshold,
              status_code_diff |-> Some(baseline_status # fuzz_status),
              length_diff |-> Some(length_diff),
              content_diff |-> Some(baseline_body # fuzz_body),
              significant_diff |-> Some(length_diff > diff_threshold)]

\* sql_detector.py:125-172: analyze_response_diff; a key the result dict
\* does not hold is None
AnalyzeResponseDiff(d, baseline_response, fuzz_response) ==
    IF ~Get(d.sql_config.detect_diff, TRUE)
    THEN [has_diff |-> FALSE, status_code_diff |-> None, length_diff |-> None,
          content_diff |-> None, significant_diff |-> None]
    ELSE LET baseline_status == Get(baseline_response.status_code, 0)
             fuzz_status == Get(fuzz_response.status_code, 0)
             baseline_body == Get(baseline_response.body, <<>>)
             fuzz_body == Get(fuzz_response.body, <<>>)
             length_diff == Abs(Len(baseline_body) - Len(fuzz_body))
             diff_threshold == Get(d.sql_config.diff_threshold, 100)
         IN  [has_diff |-> \/ baseline_status # fuzz_status
                           \/ length_diff > diff_threshold
                           \/ baseline_body # fuzz_body,
              status_code_diff |-> Some(baseline_status # fuzz_status),
              length_diff |-> Some(length_diff),
              content_diff |-> Some(baseline_body # fuzz_body),
              significant_diff |-> Some(length_diff > diff_threshold)]

Min(a, b) == IF a < b THEN a ELSE b

\* sql_detector.py:186-190: what the error signatures add to the score
ErrorScore(detection_result) ==
    IF Get(detection_result.has_sql_error, FALSE)
    THEN 50 + Min(Len(Get(detection_result.matched_errors, <<>>)) * 5, 20)
    ELSE 0

\* sql_detector.py:193-203: what the response difference adds to the score
DiffScore(detection_result) ==
    LET diff_result ==
            Get(detection_result.diff_result,
                [has_diff |-> FALSE, status_code_diff |-> None,
                 length_diff |-> None, content_diff |-> None,
                 significant_diff |-> None])
    IN  (IF Get(diff_result.significant_diff, FALSE) THEN 30 ELSE 0)
        + (IF Get(diff_result.status_code_diff, FALSE) THEN 10 ELSE 0)
        + (IF Get(diff_result.length_diff, 0) > 0 THEN 10 ELSE 0)

\* calculate_risk_score without the final min
CalculateRiskScoreNoClamp(detection_result) ==
    ErrorScore(detection_result) + DiffScore(detection_result)

\* sql_detector.py:174-205: calculate_risk_score
CalculateRiskScore(detection_result) ==
    Min(ErrorScore(detection_result) + DiffScore(detection_result), 100)

\* ------------------------------------------------ one SQL-detector call
\* the most matched signatures a detection result holds
MaxMatched == 5

\* the signature file: absent, unreadable, empty, or with blank lines,
\* comments, padding, a repeated signature, a regex and a non-regex
SignatureLines ==
    << <<" ">> \o S_SQL \o <<" ", "\n">>,
       <<"\n">>,
       <<"#", " ", "c", "\n">>,
       <<" ", " ", "#", "x", "\n">>,
       S_SQL \o <<"\n">>,
       S_sql \o <<"\n">>,
       S_ORA \o <<"\n">>,
       S_call >>
ErrorFiles ==
    {[state |-> "absent", lines |-> <<>>],
     [state |-> "unreadable", lines |-> <<>>],
     [state |-> "file", lines |-> <<>>],
     [state |-> "file", lines |-> SignatureLines]}
Flags == {None, Some(TRUE), Some(FALSE)}
SqlConfigs ==
    [detect_errors : Flags, detect_diff : Flags,
     diff_threshold : {None, Some(0), Some(1), Some(0 - 1)},
     error_file : ErrorFiles]
DefaultSqlConfig ==
    [detect_errors |-> None, detect_diff |-> None, diff_threshold |-> None,
     error_file |-> [state |-> "absent", lines |-> <<>>]]
SqlBodies ==
    {<<>>, <<"x">>,
     S_sql \o <<" ">> \o S_call,
     <<"O", "R", "A", "-", "0", "1">>,
     <<"o", "r", "a", "-">>,
     S_syntax \o <<" ", "o", "r", "a", "-", "7">>,
     <<"s", "q", "l", "s", "t", "a", "t", "e">>}
Long(n) == [i \in 1..n |-> "a"]
DiffBodies ==
    {None, Some(<<>>), Some(<<"a">>), Some(<<"b">>), Some(Long(101)),
     Some(Long(102))}
DiffResponses == [status_code : {None, Some(0), Some(200), Some(500)},
                  body : DiffBodies]
DiffResults ==
    [has_diff : BOOLEAN, status_code_diff : Flags,
     length_diff : {None, Some(0), Some(1), Some(150)},
     content_diff : {None}, significant_diff : Flags]
DetectionResults ==
    [has_sql_error : Flags,
     matched_errors : {None} \cup
                      {Some([i \in 1..n |-> S_SQL]) : n \in 0..MaxMatched},
     diff_result : {None} \cup {Some(x) : x \in DiffResults}]
SqlCalls ==
    {[fn |-> "detect", sql_config |-> c, response_body |-> b] :
         c \in {x \in SqlConfigs : x.detect_diff = None
                                   /\ x.diff_threshold = None},
         b \in SqlBodies}
    \cup
    {[fn |-> "diff", sql_config |-> c, baseline_response |-> b,
      fuzz_response |-> f] :
         c \in {x \in SqlConfigs : x.detect_errors = None
                                   /\ x.error_file.state = "absent"},
         b \in DiffResponses, f \in DiffResponses}
    \cup
    {[fn |-> "risk", sql_config |-> DefaultSqlConfig,
      detection_result |-> r] : r \in DetectionResults}

\* sql_detector.py:98-123: a call of detect_sql_error on a new detector
DetectCall ==
    /\ call # None /\ call[1].fn = "detect"
    /\ out = None
    /\ out' = Some([ret |-> DetectSqlError(NewSQLDetector(call[1].sql_config),
                                           call[1].response_body)])
    /\ UNCHANGED <<call, senderVars, detectorVars>>

\* sql_detector.py:125-172: a call of analyze_response_diff
DiffCall ==
    /\ call # None /\ call[1].fn = "diff"
    /\ out = None
    /\ out' = Some([ret |->
                        AnalyzeResponseDiff(NewSQLDetector(call[1].sql_config),
                                            call[1].baseline_response,
                                            call[1].fuzz_response)])
    /\ UNCHANGED <<call, senderVars, detectorVars>>

\* sql_detector.py:174-205: a call of calculate_risk_score
RiskCall ==
    /\ call # None /\ call[1].fn = "risk"
    /\ out = None
    /\ out' = Some([ret |-> CalculateRiskScore(call[1].detection_result),
                    error |-> ErrorScore(call[1].detection_result)])
    /\ UNCHANGED <<call, senderVars, detectorVars>>

InitSql ==
    /\ call \in {Some(x) : x \in SqlCalls}
    /\ out = None

\* --------------------------------------------------------- specifications
\* one send at a time on one sender
Init == InitSender /\ IdleDetector /\ IdleCall
Spec == Init /\ [][NextSender]_vars

\* concurrent sends on one sender
InitConc == InitConcurrent /\ IdleDetector /\ IdleCall
SpecConc == InitConc /\ [][NextSender]_vars

\* the detector: set_baseline and analyze_fuzz_result in any order
InitDet == IdleSender /\ InitDetector /\ IdleCall
SpecDetector == InitDet /\ [][NextDetector]_vars

\* the scorer: one analyze_fuzz_result against one baseline
InitScoreSpec == IdleSender /\ IdleDetector /\ InitScore
NextScore == AnalyzeCall
SpecScore == InitScoreSpec /\ [][NextScore]_vars

\* calls of the SQL detector's three functions, each on its own inputs
InitSqlSpec == IdleSender /\ IdleDetector /\ InitSql
NextSql == DetectCall \/ DiffCall \/ RiskCall
SpecSql == InitSqlSpec /\ [][NextSql]_vars

\* ================================================================ claims
Done(c) == pc[c] = "done"
Res(c) == result[c][1]
\* every attempt of call c raised a transport exception
AllAttemptsRaised(c) == hist[c].attempts > 0 /\ hist[c].excs = hist[c].attempts

\* C1: a send whose every attempt raises a transport exception (while
\* connecting or while reading the body) returns, without raising, a result
\* with status_code 0, response_length 0, a non-empty error and
\* success = false, after exactly retry + 1 attempts.
C1_AllAttemptsFail ==
    \A c \in Calls :
        (Done(c) /\ AllAttemptsRaised(c)) =>
            /\ ~raised[c]
            /\ result[c] # None
            /\ Res(c).status_code = 0
            /\ Res(c).response_length = 0
            /\ Res(c).error # None
            /\ Res(c).error # Some("")
            /\ Res(c).success = FALSE
            /\ hist[c].attempts = retry + 1

\* C2: in every result send returns, an error message is present only when
\* status_code is the 0 sentinel.
C2_ErrorOnlyWithStatusZero ==
    \A c \in Calls :
        (Done(c) /\ result[c] # None) =>
            (Res(c).error # None => Res(c).status_code = 0)

\* C3: a received response of any status ends the attempt loop: no attempt
\* starts after an attempt that received a response, the call returns as soon
\* as a response is received, and every attempt after the first follows an
\* attempt that raised.
C3_ResponseEndsLoop ==
    \A c \in Calls :
        /\ hist[c].afterResp = 0
        /\ loc[c].response => Done(c)
        /\ hist[c].attempts <= hist[c].excs + 1
        /\ hist[c].last = "resp" => Done(c)

\* C3 witness: a call with retries left returned after one attempt that
\* received a 404.
C3_Witness ==
    \E c \in Calls :
        /\ Done(c) /\ result[c] # None
        /\ retry >= 1
        /\ Res(c).status_code >= 400
        /\ Res(c).has_raw_response
        /\ hist[c].attempts = 1

\* C4: a send whose first attempt receives a response makes exactly one
\* attempt and sleeps no backoff, whatever retry is.
C4_FirstAttemptResponse ==
    \A c \in Calls :
        (Done(c) /\ hist[c].first = "resp") =>
            (hist[c].attempts = 1 /\ hist[c].sleeps = 0)

\* C4 witness: such a call, with a retry configured.
C4_Witness ==
    \E c \in Calls :
        /\ Done(c) /\ hist[c].first = "resp"
        /\ retry >= 1
        /\ hist[c].attempts = 1
        /\ hist[c].sleeps = 0

\* C5: with delay > 0 a send sleeps the pre-send delay exactly once, before
\* its first attempt, and never before a retry; with delay = 0 it never
\* sleeps it.
C5_DelayOncePerCall ==
    \A c \in Calls :
        /\ hist[c].redelay = 0
        /\ pc[c] = "idle" => hist[c].delays = 0
        /\ pc[c] # "idle" => hist[c].delays = (IF delay > 0 THEN 1 ELSE 0)
        /\ pc[c] = "sleep_delay" => hist[c].attempts = 0
        /\ (delay > 0 /\ hist[c].attempts > 0) => hist[c].delays = 1

\* C5 witness: a call with a delay configured that retried and returned,
\* having slept the delay once.
C5_Witness ==
    \E c \in Calls :
        /\ Done(c)
        /\ delay > 0
        /\ hist[c].attempts >= 2
        /\ hist[c].delays = 1

\* C6: a step of one send call never changes the attempt counter, status,
\* error, buffers, result or history of another call (a call that took the
\* step has moved to another await point or has issued another attempt).
C6_CallsIndependent ==
    [][\A c \in Calls :
          (pc'[c] = pc[c] /\ hist'[c].attempts = hist[c].attempts) =>
              /\ loc'[c] = loc[c]
              /\ result'[c] = result[c]
              /\ raised'[c] = raised[c]
              /\ hist'[c] = hist[c]]_vars

\* C6 witness: two calls in flight at once, one backing off after a failure,
\* the other reading the body of a 200.
C6_Witness ==
    /\ pc[1] = "backoff" /\ loc[1].error # None /\ loc[1].status_code = 0
    /\ pc[2] = "read" /\ loc[2].error = None /\ loc[2].status_code = 200

\* C7: once a session has been created, no operation replaces it with a
\* newly created one.
C7_SessionNeverReplaced ==
    [][session # 0 => session' = session]_vars

\* C8: when writing a debug file fails, send does not raise and returns the
\* result it built.
C8_DebugFailureSwallowed ==
    \A c \in Calls :
        (Done(c) /\ hist[c].wfail) =>
            /\ ~raised[c]
            /\ result[c] = Some([status_code |-> loc[c].status_code,
                                 response_length |-> loc[c].resp_len,
                                 error |-> loc[c].error,
                                 success |-> loc[c].response
                                             /\ loc[c].status_code < 400,
                                 has_raw_response |-> loc[c].response])

\* C8 witness: a returned call whose debug file could not be written.
C8_Witness ==
    \E c \in Calls :
        /\ Done(c) /\ hist[c].wfail /\ debug_enabled
        /\ result[c] # None

\* C9: the registry holds exactly the keys that were set, get_baseline(k) is
\* the reduced snapshot (status code, length, time, body) of the latest
\* set_baseline(k, ...), and None for a key never set.
C9_LastWriterWins ==
    /\ DOMAIN baseline_responses = {k \in Keys : lastSet[k] # None}
    /\ \A k \in Keys :
           GetBaseline(k) =
               IF lastSet[k] = None THEN None
               ELSE Some([status_code |-> lastSet[k][1].status_code,
                          response_length |-> lastSet[k][1].response_length,
                          response_time |-> lastSet[k][1].response_time,
                          response_body |-> lastSet[k][1].response_body])

\* C9 witness: a set_baseline that overwrote a different baseline of its key.
C9_Witness ==
    /\ lastOp = "set"
    /\ replaced # None
    /\ replaced # GetBaseline(lastKey[1])
    /\ \E k \in Keys : lastSet[k] = None

\* C10: analyze_fuzz_result returns None exactly when detection is disabled
\* or the candidate's key has no baseline, and an Analysis for every key that
\* was set while detection is enabled.
C10_AbsentIffNoBaseline ==
    lastOp = "analyze" =>
        /\ lastRet = None <=>
               (~cfg.enabled \/ lastKey[1] \notin DOMAIN baseline_responses)
        /\ (cfg.enabled /\ lastSet[lastKey[1]] # None) => lastRet # None

\* C10 witness: an Analysis returned for a key whose baseline has the
\* candidate's own status code.
C10_Witness ==
    /\ lastOp = "analyze"
    /\ cfg.enabled
    /\ lastRet # None
    /\ lastRet[1].status_code = lastRet[1].baseline_status

\* ----------------------------------------------------- the scorer's rules
\* an analyze call has returned an Analysis
Scored == out # None /\ call[1].fn = "analyze" /\ out[1].analysis # None
In == call[1]
Got == out[1]
CandStatus == In.result.status_code
BaseStatus == In.baseline.status_code
CandLength == In.result.response_length
BaseLength == In.baseline.response_length
SuccessSet == In.cfg.success_status_codes
AuthSet == In.cfg.auth_status_codes
Reasons == Got.analysis[1].reasons
\* the places of the status-transition reasons in the Analysis
StatusFired ==
    {i \in 1..Len(Reasons) :
         Reasons[i].rule \in {"status_success", "status_auth", "status_change"}}
\* what the Analysis scored on its status rule: its score less the other rules
StatusTerm ==
    Got.analysis[1].score - Got.length[1] - Got.time[1] - Got.keyword[1]

\* C11 (as claimed): for every scored pair exactly one of the three
\* status-transition branches fires.
C11_ExactlyOneFires ==
    Scored => Cardinality(StatusFired) = 1

\* C11 (amended): at most one of the three status-transition branches fires,
\* the first whose condition holds; exactly one fires when the candidate
\* status differs from the baseline status and none when they are equal.
C11_AtMostOneFires ==
    Scored =>
        /\ Cardinality(StatusFired) <= 1
        /\ Cardinality(StatusFired) = 1 <=> CandStatus # BaseStatus
        /\ Len(Got.status[2]) = Cardinality(StatusFired)
        /\ StatusFired # {} =>
               Reasons[1].rule =
                   IF CandStatus \in SuccessSet /\ BaseStatus \notin SuccessSet
                   THEN "status_success"
                   ELSE IF CandStatus \in AuthSet /\ BaseStatus \notin AuthSet
                   THEN "status_auth"
                   ELSE "status_change"

\* C11 witness: a pair with equal status codes was scored and no status
\* branch fired.
C11_Witness ==
    /\ Scored
    /\ CandStatus = BaseStatus
    /\ StatusFired = {}
    /\ Reasons # <<>>

\* C12: the status term is decided by first match: candidate in the success
\* set and baseline outside it gives +50 with a reason naming both codes;
\* otherwise candidate in the auth set and baseline outside it gives +40;
\* otherwise a changed status gives +20; otherwise nothing.
C12_StatusFirstMatch ==
    Scored =>
        IF CandStatus \in SuccessSet /\ BaseStatus \notin SuccessSet
        THEN /\ StatusTerm = 50
             /\ Reasons[1] = [rule |-> "status_success",
                              from |-> BaseStatus, to |-> CandStatus]
        ELSE IF CandStatus \in AuthSet /\ BaseStatus \notin AuthSet
        THEN /\ StatusTerm = 40
             /\ Reasons[1] = [rule |-> "status_auth",
                              from |-> BaseStatus, to |-> CandStatus]
        ELSE IF CandStatus # BaseStatus
        THEN /\ StatusTerm = 20
             /\ Reasons[1] = [rule |-> "status_change",
                              from |-> BaseStatus, to |-> CandStatus]
        ELSE StatusTerm = 0 /\ StatusFired = {}

\* C12 witness: a candidate status in both the success and the auth set,
\* against a baseline in neither, scored +50.
C12_Witness ==
    /\ Scored
    /\ CandStatus \in SuccessSet \cap AuthSet
    /\ BaseStatus \notin SuccessSet \cup AuthSet
    /\ StatusTerm = 50

\* the length percentage, as the double the code computes, is above the
\* threshold
LengthDeltaAbove ==
    LET d == IF CandLength >= BaseLength THEN CandLength - BaseLength
             ELSE BaseLength - CandLength
        thr == In.cfg.length_diff_threshold
    IN  \/ d * 100 > thr * BaseLength
        \/ d * 100 = thr * BaseLength /\ thr \in FloatRoundsAbove
BothAuth == CandStatus \in AuthSet /\ BaseStatus \in AuthSet

Scenario403(len) ==
    /\ Scored
    /\ CandStatus = 403 /\ BaseStatus = 403
    /\ 403 \in AuthSet
    /\ BaseLength = 1500
    /\ CandLength = len
    /\ In.cfg.length_diff_threshold = 20

\* C14 (as claimed): with both statuses 403, baseline length 1500, candidate
\* length 1600 and threshold 20, the length contribution is 15.
C14_Scenario1600Is15 ==
    Scenario403(1600) => Got.length[1] = 15

\* C14 (amended): in that scenario the length contribution is 0, because a
\* delta of 100 on 1500 bytes (6.7%) is not above the threshold of 20; with a
\* candidate length of 1900 (26.7%) it is 15, the auth-down-weighted value.
C14_Scenario1600Is0 ==
    /\ Scenario403(1600) =>
           /\ Got.length[1] = 0
           /\ \A i \in 1..Len(Reasons) : Reasons[i].rule # "length_up"
    /\ Scenario403(1900) => Got.length[1] = 15

\* C14 witness: the scenario was scored.
C14_Witness ==
    Scenario403(1600) /\ Got.length[1] = 0

\* the keywords of a list found in the lower-cased text of the candidate body
BodyText == Lower(ExtractText(In.result.response_body))
Hits(kws) == {i \in 1..Len(kws) : Contains(kws[i], BodyText)}
Least(S) == CHOOSE i \in S : \A j \in S : i <= j

\* C15: the keyword rule adds 20 at most once, for the first success keyword
\* found in the lower-cased body, and subtracts 10 at most once, for the first
\* failure keyword found; a body with both contributes +10 and two reasons,
\* the success reason first.
C15_KeywordRule ==
    Scored =>
        LET sk == In.cfg.success_keywords
            fk == In.cfg.failure_keywords
            sr == IF Hits(sk) = {} THEN <<>>
                  ELSE <<[rule |-> "keyword_success", kw |-> sk[Least(Hits(sk))]]>>
            fr == IF Hits(fk) = {} THEN <<>>
                  ELSE <<[rule |-> "keyword_failure", kw |-> fk[Least(Hits(fk))]]>>
            n == Len(Reasons)
        IN  /\ Got.keyword[1] = (IF Hits(sk) = {} THEN 0 ELSE 20)
                                 - (IF Hits(fk) = {} THEN 0 ELSE 10)
            /\ Got.keyword[2] = sr \o fr
            /\ n >= Len(sr \o fr)
            /\ SubSeq(Reasons, n - Len(sr \o fr) + 1, n) = sr \o fr
            /\ (Hits(sk) # {} /\ Hits(fk) # {}) => Got.keyword[1] = 10

\* C15 witness: a body in which two success keywords and two failure keywords
\* are found contributed +10.
C15_Witness ==
    /\ Scored
    /\ Cardinality(Hits(In.cfg.success_keywords)) = 2
    /\ Cardinality(Hits(In.cfg.failure_keywords)) = 2
    /\ Got.keyword[1] = 10
    /\ Len(Got.keyword[2]) = 2

\* C16: the level comes from the threshold comparisons on the unclamped sum
\* of the four rules: likely from score_threshold_likely up, otherwise
\* possible from score_threshold_possible up, otherwise unlikely.
C16_Classification ==
    Scored =>
        LET a == Got.analysis[1]
            likely == In.cfg.score_threshold_likely
            possible == In.cfg.score_threshold_possible
        IN  /\ a.score = Got.status[1] + Got.length[1] + Got.time[1]
                           + Got.keyword[1]
            /\ a.level = IF a.score >= likely THEN "likely"
                         ELSE IF a.score >= possible THEN "possible"
                         ELSE "unlikely"
            /\ a.score = likely => a.level = "likely"
            /\ a.score = likely - 1 => a.level # "likely"

\* C16 witness: a score exactly at score_threshold_likely classified likely.
C16_Witness ==
    /\ Scored
    /\ Got.analysis[1].score = In.cfg.score_threshold_likely
    /\ Got.analysis[1].level = "likely"

\* ------------------------------------------------------ the SQL detector
DetectDone == out # None /\ call[1].fn = "detect"
DiffDone == out # None /\ call[1].fn = "diff"
RiskDone == out # None /\ call[1].fn = "risk"

\* C17: detect_sql_error returns (false, []) when error detection is
\* disabled; otherwise it returns the original pattern strings whose compiled
\* pattern is found in the body, each once, in the order of the pattern list,
\* also when a pattern string is in the list twice, and the boolean is true
\* exactly when the list is not empty.
C17_DetectSqlError ==
    DetectDone =>
        LET pats == LoadErrorPatterns(call[1].sql_config.error_file)
            body == call[1].response_body
            found == out[1].ret[1]
            matched == out[1].ret[2]
            Hit(i) == Search(CompilePattern(pats[i]), body)
            First(x) == CHOOSE i \in 1..Len(pats) :
                            /\ pats[i] = x
                            /\ \A j \in 1..(i - 1) : pats[j] # x
        IN  IF call[1].sql_config.detect_errors = Some(FALSE)
            THEN found = FALSE /\ matched = <<>>
            ELSE /\ \A i \in 1..Len(pats) : Hit(i) <=> InSeq(pats[i], matched)
                 /\ \A j \in 1..Len(matched) : InSeq(matched[j], pats)
                 /\ \A j, k \in 1..Len(matched) :
                        j < k => /\ matched[j] # matched[k]
                                 /\ First(matched[j]) < First(matched[k])
                 /\ found <=> matched # <<>>

\* C17 witness: with a signature twice in the list, a regex and a signature
\* that is no regex, a body holding them in another case gave each once.
C17_Witness ==
    /\ DetectDone
    /\ call[1].sql_config.detect_errors # Some(FALSE)
    /\ LoadErrorPatterns(call[1].sql_config.error_file)
           = <<S_SQL, S_SQL, S_sql, S_ORA, S_call>>
    /\ call[1].response_body = S_sql \o <<" ">> \o S_call
    /\ out[1].ret = <<TRUE, <<S_SQL, S_sql, S_call>> >>

\* C18 (as claimed): analyze_response_diff returns has_diff = false when diff
\* detection is disabled; otherwise has_diff is true exactly when the status codes
\* differ, or the length delta is above diff_threshold, or the bodies are
\* unequal; identical bodies with identical status codes give has_diff false.
C18_HasDiff ==
    DiffDone =>
        LET r == out[1].ret
            b == call[1].baseline_response
            f == call[1].fuzz_response
            bbody == IF b.body = None THEN <<>> ELSE b.body[1]
            fbody == IF f.body = None THEN <<>> ELSE f.body[1]
            bst == IF b.status_code = None THEN 0 ELSE b.status_code[1]
            fst == IF f.status_code = None THEN 0 ELSE f.status_code[1]
            delta == IF Len(bbody) > Len(fbody) THEN Len(bbody) - Len(fbody)
                     ELSE Len(fbody) - Len(bbody)
            thr == IF call[1].sql_config.diff_threshold = None THEN 100
                   ELSE call[1].sql_config.diff_threshold[1]
        IN  IF call[1].sql_config.detect_diff = Some(FALSE)
            THEN r.has_diff = FALSE
            ELSE /\ r.status_code_diff = Some(bst # fst)
                 /\ r.significant_diff = Some(delta > thr)
                 /\ r.content_diff = Some(bbody # fbody)
                 /\ r.has_diff <=> \/ r.status_code_diff[1]
                                   \/ r.significant_diff[1]
                                   \/ r.content_diff[1]
                 /\ (bbody = fbody /\ bst = fst) => r.has_diff = FALSE

\* C18 (amended): analyze_response_diff returns has_diff = false when diff
\* detection is disabled; otherwise has_diff is true exactly when the status codes
\* differ, or the length delta is above diff_threshold, or the bodies are
\* unequal; with diff_threshold >= 0, identical bodies with identical status
\* codes give has_diff false (with a negative diff_threshold they give
\* significant_diff and has_diff true).
C18_HasDiffNonNegative ==
    DiffDone =>
        LET r == out[1].ret
            b == call[1].baseline_response
            f == call[1].fuzz_response
            bbody == IF b.body = None THEN <<>> ELSE b.body[1]
            fbody == IF f.body = None THEN <<>> ELSE f.body[1]
            bst == IF b.status_code = None THEN 0 ELSE b.status_code[1]
            fst == IF f.status_code = None THEN 0 ELSE f.status_code[1]
            delta == IF Len(bbody) > Len(fbody) THEN Len(bbody) - Len(fbody)
                     ELSE Len(fbody) - Len(bbody)
            thr == IF call[1].sql_config.diff_threshold = None THEN 100
                   ELSE call[1].sql_config.diff_threshold[1]
        IN  IF call[1].sql_config.detect_diff = Some(FALSE)
            THEN r.has_diff = FALSE
            ELSE /\ r.status_code_diff = Some(bst # fst)
                 /\ r.significant_diff = Some(delta > thr)
                 /\ r.content_diff = Some(bbody # fbody)
                 /\ r.has_diff <=> \/ r.status_code_diff[1]
                                   \/ r.significant_diff[1]
                                   \/ r.content_diff[1]
                 /\ (bbody = fbody /\ bst = fst) =>
                        r.has_diff = (thr < 0)

\* C18 witness: two responses with the same long body and the same status
\* code were compared with diff detection on, and has_diff is false.
C18_Witness ==
    /\ DiffDone
    /\ call[1].sql_config.detect_diff # Some(FALSE)
    /\ call[1].sql_config.diff_threshold = Some(0)
    /\ call[1].baseline_response.body = Some(Long(102))
    /\ call[1].fuzz_response.body = Some(Long(102))
    /\ call[1].baseline_response.status_code = Some(500)
    /\ call[1].fuzz_response.status_code = Some(500)
    /\ out[1].ret.has_diff = FALSE

\* C19: calculate_risk_score returns a value from 0 to 100 for every
\* detection result, also one with missing fields or with the diff result
\* of a detector whose diff detection is disabled.
C19_RiskScoreRange ==
    RiskDone => out[1].ret \in 0..100

\* C19 witness: a detection result whose parts add up to 120 scored 100.
C19_Witness ==
    /\ RiskDone
    /\ call[1].detection_result.has_sql_error = Some(TRUE)
    /\ call[1].detection_result.matched_errors # None
    /\ Len(call[1].detection_result.matched_errors[1]) >= 4
    /\ call[1].detection_result.diff_result # None
    /\ call[1].detection_result.diff_result[1].significant_diff = Some(TRUE)
    /\ call[1].detection_result.diff_result[1].status_code_diff = Some(TRUE)
    /\ call[1].detection_result.diff_result[1].length_diff = Some(150)
    /\ out[1].ret = 100

\* C20: with an error signature present and n >= 1 matched signatures the
\* error part of the risk score is 50 plus 5 for each matched signature
\* beyond the first, the bonus capped at 20 (50 for one match, at most 70);
\* with has_sql_error false the error part is 0 whatever matched_errors
\* holds.
C20_ErrorPart ==
    RiskDone =>
        LET d == call[1].detection_result
            n == IF d.matched_errors = None THEN 0
                 ELSE Len(d.matched_errors[1])
            bonus == IF 5 * (n - 1) < 20 THEN 5 * (n - 1) ELSE 20
        IN  /\ (d.has_sql_error = Some(TRUE) /\ n >= 1) =>
                   out[1].error = 50 + bonus
            /\ d.has_sql_error = Some(FALSE) => out[1].error = 0

\* ------------------------------------------------------- the retry loop
\* C21: within one send the attempts are sequential with a fixed backoff:
\* attempt k+1 is issued only when attempt k raised and one backoff sleep
\* was slept after it; a backoff sleep follows a failed attempt only if
\* another attempt follows; a call that made n attempts slept n-1 backoffs,
\* none after the last failed attempt and none after a response.
C21_BackoffBetweenAttempts ==
    \A c \in Calls :
        LET h == hist[c]
        IN  /\ h.afterResp = 0
            /\ pc[c] \in {"idle", "sleep_delay"} =>
                   h.attempts = 0 /\ h.sleeps = 0
            /\ pc[c] \in {"connect", "read"} =>
                   /\ h.attempts >= 1
                   /\ h.excs = h.attempts - 1
                   /\ h.sleeps = h.attempts - 1
            /\ pc[c] = "backoff" =>
                   /\ h.last = "exc"
                   /\ h.excs = h.attempts
                   /\ h.sleeps = h.attempts
                   /\ h.attempts <= retry
            /\ Done(c) =>
                   /\ h.attempts >= 1
                   /\ h.sleeps = h.attempts - 1
                   /\ h.excs = IF h.last = "resp" THEN h.attempts - 1
                               ELSE h.attempts

\* C21 witness: a call whose two attempts both raised has returned after
\* one backoff sleep.
C21_Witness ==
    \E c \in Calls :
        /\ Done(c)
        /\ hist[c].attempts = 2
        /\ hist[c].excs = 2
        /\ hist[c].sleeps = 1

\* ------------------------------------------------- the range of the score
\* C22: every Analysis has a score from -10 (one failure-keyword penalty)
\* to 110 (50 + 30 + 10 + 20); an Analysis without reasons has score 0; no
\* Analysis has more than five reasons.
C22_ScoreRange ==
    Scored =>
        LET a == Got.analysis[1]
        IN  /\ a.score >= 0 - 10
            /\ a.score <= 50 + 30 + 10 + 20
            /\ a.reasons = <<>> => a.score = 0
            /\ Len(a.reasons) <= 5

\* C22 witness: a pair that fires the success transition, the largest
\* length class, the time rule and a success keyword scored 110.
C22_Witness ==
    /\ Scored
    /\ Got.analysis[1].score = 110
    /\ Len(Got.analysis[1].reasons) = 4

\* ------------------------------------------------- the baseline registry
\* C23: analyze_fuzz_result leaves the baseline registry as it is, whether
\* it returns an Analysis or nothing; what it returns depends only on the
\* candidate and on the baseline last set for the candidate's key, so two
\* calls on the same candidate with no set_baseline for its key in between
\* return the same score, level and reasons; set_baseline(k, ...) leaves the
\* baseline of every other key as it is.
C23_AnalyzeReadOnly ==
    [][/\ lastOp' = "analyze" =>
           /\ baseline_responses' = baseline_responses
           /\ cfg' = cfg
           /\ lastRet' =
                  IF ~cfg.enabled \/ lastSet[lastKey'[1]] = None THEN None
                  ELSE Some(Analyze(cfg, Reduced(lastSet[lastKey'[1]][1]),
                                    lastArg'[1]))
       /\ (lastOp = "analyze" /\ lastOp' = "analyze" /\ lastArg' = lastArg) =>
              lastRet' = lastRet
       /\ lastOp' = "set" =>
              \A k \in Keys \ {lastKey'[1]} :
                  /\ k \in DOMAIN baseline_responses'
                         <=> k \in DOMAIN baseline_responses
                  /\ k \in DOMAIN baseline_responses =>
                         baseline_responses'[k] = baseline_responses[k]
                  /\ lastSet'[k] = lastSet[k]
      ]_vars

\* C23 witness: with baselines under two keys, an analyze call returned an
\* Analysis and each key still holds the baseline last set for it.
C23_Witness ==
    /\ lastOp = "analyze"
    /\ lastRet # None
    /\ Cardinality(DOMAIN baseline_responses) >= 2
    /\ \A k \in DOMAIN baseline_responses :
           /\ lastSet[k] # None
           /\ baseline_responses[k] = Reduced(lastSet[k][1])

\* ------------------------------------------------ length and content diff
\* C24: in every result of analyze_response_diff with diff detection on and
\* diff_threshold >= 0, significant_diff implies content_diff and
\* length_diff > 0 implies content_diff; so has_diff is status_code_diff or
\* content_diff, and a result with has_diff false has length_diff 0.
C24_LengthImpliesContent ==
    (/\ DiffDone
     /\ call[1].sql_config.detect_diff # Some(FALSE)
     /\ \/ call[1].sql_config.diff_threshold = None
        \/ call[1].sql_config.diff_threshold[1] >= 0) =>
        LET r == out[1].ret
        IN  /\ r.significant_diff[1] => r.content_diff[1]
            /\ r.length_diff[1] > 0 => r.content_diff[1]
            /\ r.has_diff <=> (r.status_code_diff[1] \/ r.content_diff[1])
            /\ ~r.has_diff => r.length_diff[1] = 0

\* C24 witness: with diff_threshold 0, bodies whose lengths differ by one
\* gave significant_diff and content_diff.
C24_Witness ==
    /\ DiffDone
    /\ call[1].sql_config.detect_diff # Some(FALSE)
    /\ call[1].sql_config.diff_threshold = Some(0)
    /\ call[1].baseline_response.status_code = call[1].fuzz_response.status_code
    /\ out[1].ret.length_diff = Some(1)
    /\ out[1].ret.significant_diff = Some(TRUE)
    /\ out[1].ret.content_diff = Some(TRUE)
    /\ out[1].ret.has_diff

====
